---- MODULE Spec2Model ----
(***************************************************************************)
(* The remote-execution engine of drone-runner-digitalocean                *)
(* (engine/engine_impl.go): Setup, Run, Destroy and the helpers dialRetry  *)
(* and upload, driven by a scheduler that issues one engine call at a      *)
(* time, with the caller's context cancellable at any moment and the one   *)
(* background task that Run spawns.  Time is counted in seconds and only   *)
(* inside dialRetry, from the moment its timeout context is derived.       *)
(***************************************************************************)
EXTENDS Integers, Sequences, FiniteSets, TLC

\* ---------------------------------------------------------------- bounds
MaxCalls == 2        \* engine calls the scheduler issues in one behaviour
MaxId == 2           \* machine identifiers the collaborator hands out: 1..MaxId
MaxFiles == 2        \* length of Spec.Files and of Step.Files
MaxFails == 2        \* a host refuses at most this many dials before accepting
MaxDialTicks == 1    \* backoff periods that one dial attempt may take
MaxExitStatus == 3   \* exit statuses a remote command reports: 1..MaxExitStatus

\* ------------------------------------------------------ program constants
networkTimeout == 600   \* seconds: time.Minute * 10
retryWait == 10         \* seconds: time.After(time.Second * 10)
sessionFailure == 255   \* state.ExitCode = 255

\* ----------------------------------------------------------------- values
NoErr == [kind |-> "nil", status |-> 0]
Err(k) == [kind |-> k, status |-> 0]
ExitError(n) == [kind |-> "ExitError", status |-> n]
NoState == [set |-> FALSE, ExitCode |-> 0, Exited |-> FALSE, OOMKilled |-> FALSE]
NeverUp == 0 - 1     \* a host that refuses every dial
IDs == 0..MaxId
IPs == {"", "10.0.0.1"}
FileLists == UNION {[1..n -> BOOLEAN] : n \in 0..MaxFiles}
NoOpen == [conn |-> 0, sftp |-> 0, session |-> 0, file |-> 0]
CtxErrs == {"Canceled", "DeadlineExceeded"}

VARIABLES
    id, ip,        \* spec.id, spec.ip
    files,         \* spec.Files as the Setup in progress reads it: the IsDir flags
    call,          \* the engine call in progress, or "idle"
    pc,            \* the line the call in progress has reached
    ncalls,        \* engine calls issued so far
    ctx,           \* the caller's context: "none" or its error once done
    cctx,          \* dialRetry's timeout context: "off", "none" or its error
    elapsed,       \* seconds since dialRetry derived its timeout context
    timer,         \* value of elapsed when time.After was armed
    dialTicks,     \* backoff periods the dial in flight has taken
    failsLeft,     \* dials the host still refuses (NeverUp: all of them)
    attempts,      \* dial attempts of the call in progress (saturating)
    backoff,       \* seconds slept since the last failed dial attempt
    idx,           \* loop index into spec.Files / step.Files
    stepFiles,     \* len(step.Files) of the Run in progress
    task,          \* Run's goroutine: "none", "running", "sending", "done"
    taskErr,       \* the error session.Run returned to the goroutine
    stuck,         \* goroutines that a later Run found still undelivered
    open,          \* open connections, sftp clients, sessions, file handles
    defers,        \* deferred closes of Setup / Run, in registration order
    platform,      \* calls made to the provisioning collaborator, in order
    ops,           \* remote operations of the call in progress, in order
    ret            \* what the last engine call returned

vars == <<id, ip, files, call, pc, ncalls, ctx, cctx, elapsed, timer, dialTicks,
          failsLeft, attempts, backoff, idx, stepFiles, task, taskErr, stuck,
          open, defers, platform, ops, ret>>

machine == <<id, ip>>
clock == <<cctx, elapsed, timer, dialTicks, failsLeft>>
goroutine == <<task, taskErr, stuck>>

\* No engine call has returned since the last one began.
NoRet == [op |-> "none", err |-> NoErr, state |-> NoState, at |-> "none"]

Init ==
    /\ id = 0
    /\ ip = ""
    /\ files = <<>>
    /\ call = "idle"
    /\ pc = "idle"
    /\ ncalls = 0
    /\ ctx = "none"
    /\ cctx = "off"
    /\ elapsed = 0
    /\ timer = 0
    /\ dialTicks = 0
    /\ failsLeft = 0
    /\ attempts = 0
    /\ backoff = 0
    /\ idx = 1
    /\ stepFiles = 0
    /\ task = "none"
    /\ taskErr = NoErr
    /\ stuck = 0
    /\ open = NoOpen
    /\ defers = <<>>
    /\ platform = <<>>
    /\ ops = <<>>
    /\ ret = NoRet

\* ------------------------------------------------------------ Go plumbing
Acquire(o, r) == [o EXCEPT ![r] = @ + 1]
Release(o, r) == [o EXCEPT ![r] = @ - 1]

\* The deferred closes of a returning function run last registered first.
RECURSIVE RunDefers(_, _)
RunDefers(o, ds) ==
    IF ds = <<>> THEN o
    ELSE RunDefers(Release(o, ds[Len(ds)]), SubSeq(ds, 1, Len(ds) - 1))

\* The scheduler issues engine calls one at a time.
Enter ==
    /\ call = "idle"
    /\ ncalls < MaxCalls
    /\ ncalls' = ncalls + 1

\* The call goes on; the context the scheduler passed may already be done.
Begin(op, label) ==
    /\ call' = op
    /\ pc' = label
    /\ ret' = NoRet
    /\ \E c \in {"none"} \cup CtxErrs : ctx' = c

\* The engine call op returns: its deferred closes run on the way out, and its
\* arguments and locals are gone.
Return(op, o, e, st, where) ==
    /\ open' = RunDefers(o, defers)
    /\ defers' = <<>>
    /\ ret' = [op |-> op, err |-> e, state |-> st, at |-> where]
    /\ call' = "idle"
    /\ pc' = "idle"
    /\ ctx' = "none"
    /\ files' = <<>>
    /\ stepFiles' = 0
    /\ idx' = 1
    /\ attempts' = 0
    /\ backoff' = 0
    /\ ops' = <<>>

\* The caller's context is cancelled or reaches its deadline while a call runs;
\* a context derived from it is done with the same error. A Run blocked in the
\* select of line 247 is woken with the case of line 249; the trace of a Run
\* whose command is executing notes the moment.
CtxDone ==
    /\ call # "idle"
    /\ ctx = "none"
    /\ \E c \in CtxErrs :
        /\ ctx' = c
        /\ cctx' = IF cctx = "none" THEN c ELSE cctx
    /\ pc' = IF call = "Run" /\ pc = "r_parked" THEN "r_signal" ELSE pc
    /\ ops' = IF call = "Run" /\ pc \in {"r_select", "r_parked"} /\ task = "running"
              THEN Append(ops, [op |-> "ctx done", file |-> 0])
              ELSE ops
    /\ UNCHANGED <<machine, files, call, ncalls, elapsed, timer, dialTicks,
                   failsLeft, attempts, backoff, idx, stepFiles, goroutine, open,
                   defers, platform, ret>>

\* ---------------------------------------------------------------- Destroy
\* Destroy without the guard of line 174: the collaborator is always asked.
Destroy_NoGuard ==
    /\ Enter
    /\ \E e \in {NoErr, Err("destroy")} :
        /\ platform' = Append(platform, [op |-> "Destroy", id |-> id, ip |-> ip, err |-> e])
        /\ ret' = [op |-> "Destroy", err |-> e, state |-> NoState, at |-> "platform"]
    /\ UNCHANGED <<machine, files, call, pc, ctx, clock, attempts, backoff, idx,
                   stepFiles, goroutine, open, defers, ops>>

\* Destroy returning nil without asking the collaborator.
DestroyCall_Noop ==
    /\ platform' = platform
    /\ ret' = [op |-> "Destroy", err |-> NoErr, state |-> NoState, at |-> "guard"]
    /\ UNCHANGED <<machine, files, call, pc, ctx, clock, attempts, backoff, idx,
                   stepFiles, goroutine, open, defers, ops>>

\* Destroy forgetting the machine once it asked for its deletion.
DestroyCall_Clears ==
    /\ IF id = 0
       THEN /\ platform' = platform
            /\ ret' = [op |-> "Destroy", err |-> NoErr, state |-> NoState, at |-> "guard"]
            /\ UNCHANGED machine
       ELSE \E e \in {NoErr, Err("destroy")} :
            /\ platform' = Append(platform, [op |-> "Destroy", id |-> id, ip |-> ip, err |-> e])
            /\ ret' = [op |-> "Destroy", err |-> e, state |-> NoState, at |-> "platform"]
            /\ id' = 0
            /\ ip' = ""
    /\ UNCHANGED <<files, call, pc, ctx, clock, attempts, backoff, idx,
                   stepFiles, goroutine, open, defers, ops>>

\* Lines 174-186: the body of Destroy.
DestroyCall ==
    /\ IF id = 0
       THEN /\ platform' = platform
            /\ ret' = [op |-> "Destroy", err |-> NoErr, state |-> NoState, at |-> "guard"]
       ELSE \E e \in {NoErr, Err("destroy")} :
            /\ platform' = Append(platform, [op |-> "Destroy", id |-> id, ip |-> ip, err |-> e])
            /\ ret' = [op |-> "Destroy", err |-> e, state |-> NoState, at |-> "platform"]
    /\ UNCHANGED <<machine, files, call, pc, ctx, clock, attempts, backoff, idx,
                   stepFiles, goroutine, open, defers, ops>>

\* Lines 171-187.
Destroy ==
    /\ Enter
    /\ DestroyCall

\* ------------------------------------------------------ what is uploaded
\* A piece of an uploaded file: what one of the script writers produced for the
\* step (file 0), or the Data of File f.
Chunk(p, f) == [part |-> p, file |-> f]
FileData(f) == <<Chunk("data", f)>>

\* The three script writers append their statements to the buffer they are given.
writeWorkdir(w) == w \o <<Chunk("workdir", 0)>>
writeSecrets(w) == w \o <<Chunk("secrets", 0)>>
writeEnviron(w) == w \o <<Chunk("environ", 0)>>

\* The script with the File's content ahead of the statements.
Script_DataFirst(f) == FileData(f) \o writeEnviron(writeSecrets(writeWorkdir(<<>>)))

\* Lines 214-218: a new buffer for each File of the step, the three writers in
\* this order, then the File's Data.
Script(f) == writeEnviron(writeSecrets(writeWorkdir(<<>>))) \o FileData(f)

\* The data argument of upload: file.Data in Setup (line 153), the script in
\* Run (line 219).
Uploaded(f) == IF call = "Run" THEN Script(f) ELSE FileData(f)

\* ----------------------------------------------------------------- upload
\* upload (lines 350-364) as called from the file loops of Setup and of Run: its
\* error makes the caller return it (lines 154-159, 220-226), its success moves
\* the caller's loop on.  The file handle is closed by the deferred f.Close().
UploadCreate ==
    /\ call \in {"Setup", "Run"} /\ pc = "up_create"
    /\ \E ok \in BOOLEAN :
        IF ok
        THEN /\ open' = Acquire(open, "file")
             /\ pc' = "up_write"
             /\ ops' = Append(ops, [op |-> "create", file |-> idx])
             /\ UNCHANGED <<call, defers, ret, ctx, files, stepFiles, idx, attempts, backoff>>
        ELSE Return(call, open, Err("create"), NoState, "upload")
    /\ UNCHANGED <<machine, ncalls, clock, goroutine, platform>>

\* upload without the deferred f.Close() of line 355 on the write's failure.
UploadWrite_Leak ==
    /\ call \in {"Setup", "Run"} /\ pc = "up_write"
    /\ \E ok \in BOOLEAN :
        IF ok
        THEN /\ pc' = "up_chmod"
             /\ ops' = Append(ops, [op |-> "write", file |-> idx, data |-> Uploaded(idx)])
             /\ UNCHANGED <<call, open, defers, ret, ctx, files, stepFiles, idx,
                            attempts, backoff>>
        ELSE Return(call, open, Err("write"), NoState, "upload")
    /\ UNCHANGED <<machine, ncalls, clock, goroutine, platform>>

UploadWrite ==
    /\ call \in {"Setup", "Run"} /\ pc = "up_write"
    /\ \E ok \in BOOLEAN :
        IF ok
        THEN /\ pc' = "up_chmod"
             /\ ops' = Append(ops, [op |-> "write", file |-> idx, data |-> Uploaded(idx)])
             /\ UNCHANGED <<call, open, defers, ret, ctx, files, stepFiles, idx,
                            attempts, backoff>>
        ELSE Return(call, Release(open, "file"), Err("write"), NoState, "upload")
    /\ UNCHANGED <<machine, ncalls, clock, goroutine, platform>>

\* upload returning after a successful chmod with the file still open.
UploadChmod_KeepsOpen ==
    /\ call \in {"Setup", "Run"} /\ pc = "up_chmod"
    /\ \E ok \in BOOLEAN :
        IF ok
        THEN /\ pc' = IF call = "Setup" THEN "files" ELSE "r_files"
             /\ idx' = idx + 1
             /\ ops' = Append(ops, [op |-> "chmod", file |-> idx])
             /\ UNCHANGED <<call, open, defers, ret, ctx, files, stepFiles, attempts, backoff>>
        ELSE Return(call, Release(open, "file"), Err("chmod"), NoState, "upload")
    /\ UNCHANGED <<machine, ncalls, clock, goroutine, platform>>

UploadChmod ==
    /\ call \in {"Setup", "Run"} /\ pc = "up_chmod"
    /\ \E ok \in BOOLEAN :
        IF ok
        THEN /\ open' = Release(open, "file")
             /\ pc' = IF call = "Setup" THEN "files" ELSE "r_files"
             /\ idx' = idx + 1
             /\ ops' = Append(ops, [op |-> "chmod", file |-> idx])
             /\ UNCHANGED <<call, defers, ret, ctx, files, stepFiles, attempts, backoff>>
        ELSE Return(call, Release(open, "file"), Err("chmod"), NoState, "upload")
    /\ UNCHANGED <<machine, ncalls, clock, goroutine, platform>>

\* ------------------------------------------------------------------ Setup
\* What platform.Provision hands back: a machine and no error, no machine and an
\* error, or a partially created machine (an identifier, perhaps no address yet)
\* together with an error.
ProvisionResults ==
    {r \in [id : IDs, ip : IPs, err : {NoErr, Err("provision")}] :
        /\ r.err = NoErr => (r.id > 0 /\ r.ip # "")
        /\ r.id = 0 => r.ip = ""}

\* Setup cleaning up after itself: the machine is deleted and forgotten.
SetupFails_Cleanup(e, where) ==
    /\ Return("Setup", open, e, NoState, where)
    /\ platform' = Append(platform, [op |-> "Destroy", id |-> id, ip |-> ip, err |-> NoErr])
    /\ id' = 0
    /\ ip' = ""

\* Setup returns the error of the step that failed (lines 98-100, 104-112,
\* 121-127, 137-143); the machine and the collaborator are left alone.
SetupFails(e, where) ==
    /\ Return("Setup", open, e, NoState, where)
    /\ UNCHANGED <<machine, platform>>

\* Setup going on to provision whatever RegisterKey returned.
SetupRegisterKey_Ignored ==
    /\ Enter
    /\ \E e \in {NoErr, Err("register")} :
        /\ platform' = Append(platform, [op |-> "RegisterKey", id |-> 0, ip |-> "", err |-> e])
        /\ Begin("Setup", "provision")
        /\ UNCHANGED <<open, defers, files, stepFiles, idx, attempts, backoff, ops>>
    /\ UNCHANGED <<machine, clock, goroutine>>

\* Lines 61-70: register the public key.
SetupRegisterKey ==
    /\ Enter
    /\ \E e \in {NoErr, Err("register")} :
        /\ platform' = Append(platform, [op |-> "RegisterKey", id |-> 0, ip |-> "", err |-> e])
        /\ IF e # NoErr
           THEN Return("Setup", open, e, NoState, "register")
           ELSE /\ Begin("Setup", "provision")
                /\ UNCHANGED <<open, defers, files, stepFiles, idx, attempts,
                               backoff, ops>>
    /\ UNCHANGED <<machine, clock, goroutine>>

\* The write-back placed after the error check of line 85.
Record_OnlyOnSuccess(r) ==
    IF r.id > 0 /\ r.err = NoErr THEN <<r.id, r.ip>> ELSE <<id, ip>>

\* The write-back without the guard of line 81.
Record_Unconditional(r) ==
    <<r.id, r.ip>>

\* Lines 81-84: the write-back of the instance onto the spec.
Record(r) ==
    IF r.id > 0 THEN <<r.id, r.ip>> ELSE <<id, ip>>

\* Lines 73-92: provision the machine, record it, stop on error; otherwise
\* dialRetry is entered against a host that refuses failsLeft dials.
SetupProvision ==
    /\ call = "Setup" /\ pc = "provision"
    /\ \E r \in ProvisionResults :
        /\ platform' = Append(platform, [op |-> "Provision", id |-> r.id, ip |-> r.ip, err |-> r.err])
        /\ id' = Record(r)[1]
        /\ ip' = Record(r)[2]
        /\ IF r.err # NoErr
           THEN /\ Return("Setup", open, r.err, NoState, "provision")
                /\ UNCHANGED failsLeft
           ELSE /\ pc' = "dr_first"
                /\ \E n \in 0..MaxFails : failsLeft' = n
                /\ UNCHANGED <<call, open, defers, ret, ctx, files, stepFiles, idx,
                               attempts, backoff, ops>>
    /\ UNCHANGED <<ncalls, cctx, elapsed, timer, dialTicks, goroutine>>

\* -------------------------------------------------------------- dialRetry
\* dial (lines 280-295) against the host: it accepts once failsLeft is 0, and a
\* refused dial yields no client.
DialOk == failsLeft = 0
AfterRefusal == IF failsLeft > 0 THEN failsLeft - 1 ELSE failsLeft
Count(n) == IF n < MaxFails + 2 THEN n + 1 ELSE n

\* dialRetry leaves: its deferred cancel() releases the timeout context.
DialRetryLeaves ==
    /\ cctx' = "off"
    /\ elapsed' = 0
    /\ timer' = 0
    /\ dialTicks' = 0
    /\ failsLeft' = 0

\* dialRetry returns its connection to Setup, which defers the close (line 101).
SetupGotClient ==
    /\ open' = Acquire(open, "conn")
    /\ defers' = Append(defers, "conn")
    /\ pc' = "sftp"
    /\ DialRetryLeaves
    /\ UNCHANGED <<call, ret, ctx, files, stepFiles, idx, ops>>

\* dialRetry returns the context's error and Setup returns it (lines 98-100).
SetupDialFailed(e) ==
    /\ SetupFails(Err(e), "dial")
    /\ DialRetryLeaves

\* Lines 302-308: the immediate attempt; on failure the timeout context is
\* derived from the caller's context and the clock of the model starts.
DialRetryFirst ==
    /\ call = "Setup" /\ pc = "dr_first"
    /\ attempts' = Count(attempts)
    /\ backoff' = 0
    /\ IF DialOk
       THEN SetupGotClient
       ELSE /\ failsLeft' = AfterRefusal
            /\ cctx' = ctx
            /\ elapsed' = 0
            /\ pc' = "dr_check"
            /\ UNCHANGED <<call, open, defers, ret, ctx, files, stepFiles, idx, ops,
                           timer, dialTicks>>
    /\ UNCHANGED <<machine, ncalls, goroutine, platform>>

\* Lines 311-315: the non-blocking check at the top of the loop.
DialRetryCheck ==
    /\ call = "Setup" /\ pc = "dr_check"
    /\ IF cctx # "none"
       THEN SetupDialFailed(cctx)
       ELSE /\ pc' = "dr_dial"
            /\ dialTicks' = 0
            /\ UNCHANGED <<call, open, defers, ret, ctx, files, stepFiles, idx, ops,
                           attempts, backoff, cctx, elapsed, timer, failsLeft,
                           machine, platform>>
    /\ UNCHANGED <<ncalls, goroutine>>

\* Line 322: the retry is started.
DialRetryDial ==
    /\ call = "Setup" /\ pc = "dr_dial"
    /\ attempts' = Count(attempts)
    /\ backoff' = 0
    /\ pc' = "dr_dialing"
    /\ UNCHANGED <<machine, files, call, ncalls, ctx, cctx, elapsed, timer, dialTicks,
                   failsLeft, idx, stepFiles, goroutine, open, defers, platform, ops, ret>>

\* Lines 322-341: the retry ends; on failure there is no client to close
\* (line 333) and time.After is armed (line 341).
DialRetryDialed ==
    /\ call = "Setup" /\ pc = "dr_dialing"
    /\ IF DialOk
       THEN SetupGotClient /\ UNCHANGED <<attempts, backoff>>
       ELSE /\ failsLeft' = AfterRefusal
            /\ timer' = elapsed
            /\ dialTicks' = 0
            /\ pc' = "dr_wait"
            /\ UNCHANGED <<call, open, defers, ret, ctx, files, stepFiles, idx, ops,
                           attempts, backoff, cctx, elapsed>>
    /\ UNCHANGED <<machine, ncalls, goroutine, platform>>

\* Lines 337-343: the select on the context and the 10 second timer; when both
\* are ready either case may be taken.
TimerFired == elapsed - timer >= retryWait
DialRetryWait ==
    /\ call = "Setup" /\ pc = "dr_wait"
    /\ \/ /\ cctx # "none"
          /\ SetupDialFailed(cctx)
       \/ /\ TimerFired
          /\ backoff' = elapsed - timer
          /\ pc' = "dr_check"
          /\ UNCHANGED <<call, open, defers, ret, ctx, files, stepFiles, idx, ops,
                         attempts, clock, machine, platform>>
    /\ UNCHANGED <<ncalls, goroutine>>

\* The clock with a timeout context that never expires.
Tick_NoDeadline ==
    /\ call = "Setup"
    /\ \/ pc \in {"dr_dial", "dr_dialing"} /\ dialTicks < MaxDialTicks
       \/ pc = "dr_wait" /\ cctx = "none" /\ ~TimerFired
    /\ elapsed' = elapsed + retryWait
    /\ dialTicks' = IF pc = "dr_wait" THEN dialTicks ELSE dialTicks + 1
    /\ UNCHANGED <<machine, files, call, pc, ncalls, ctx, cctx, timer, failsLeft,
                   attempts, backoff, idx, stepFiles, goroutine, open, defers,
                   platform, ops, ret>>

\* Time passes between the check and the end of the dial it lets through, and
\* while dialRetry sleeps; the select of the wait is taken as soon as one of
\* its cases is ready.  The timeout context (line 307) is done with
\* DeadlineExceeded once networkTimeout has elapsed.
Tick ==
    /\ call = "Setup"
    /\ \/ pc \in {"dr_dial", "dr_dialing"} /\ dialTicks < MaxDialTicks
       \/ pc = "dr_wait" /\ cctx = "none" /\ ~TimerFired
    /\ elapsed' = elapsed + retryWait
    /\ dialTicks' = IF pc = "dr_wait" THEN dialTicks ELSE dialTicks + 1
    /\ cctx' = IF cctx = "none" /\ elapsed' >= networkTimeout
               THEN "DeadlineExceeded" ELSE cctx
    /\ UNCHANGED <<machine, files, call, pc, ncalls, ctx, timer, failsLeft, attempts,
                   backoff, idx, stepFiles, goroutine, open, defers, platform, ops, ret>>

\* ------------------------------------------------------- Setup, continued
\* Lines 103-115: the sftp client on the connection.
SetupSftp ==
    /\ call = "Setup" /\ pc = "sftp"
    /\ \E ok \in BOOLEAN :
        IF ok
        THEN /\ open' = Acquire(open, "sftp")
             /\ defers' = Append(defers, "sftp")
             /\ pc' = "mkroot"
             /\ UNCHANGED <<call, ret, ctx, files, stepFiles, idx, attempts, backoff, ops,
                            machine, platform>>
        ELSE SetupFails(Err("sftp"), "sftp")
    /\ UNCHANGED <<ncalls, clock, goroutine>>

\* Lines 120-132: the workspace root (file 0 of the remote operations); then
\* spec.Files is read, whatever the scheduler put there.
SetupMkdirRoot ==
    /\ call = "Setup" /\ pc = "mkroot"
    /\ \E ok \in BOOLEAN :
        IF ok
        THEN /\ pc' = "dirs"
             /\ ops' = Append(ops, [op |-> "mkdir", file |-> 0])
             /\ \E fs \in FileLists : files' = fs
             /\ UNCHANGED <<call, open, defers, ret, ctx, stepFiles, idx, attempts, backoff,
                            machine, platform>>
        ELSE SetupFails(Err("mkdir"), "mkroot")
    /\ UNCHANGED <<ncalls, clock, goroutine>>

\* The first loop without the test of line 133: every File gets a directory.
SetupDirs_NoFilter ==
    /\ call = "Setup" /\ pc = "dirs"
    /\ IF idx > Len(files)
       THEN /\ pc' = "files"
            /\ idx' = 1
            /\ UNCHANGED <<call, open, defers, ret, ctx, files, stepFiles, attempts,
                           backoff, ops, machine, platform>>
       ELSE \E ok \in BOOLEAN :
                IF ok
                THEN /\ idx' = idx + 1
                     /\ ops' = Append(ops, [op |-> "mkdir", file |-> idx])
                     /\ UNCHANGED <<call, pc, open, defers, ret, ctx, files, stepFiles,
                                    attempts, backoff, machine, platform>>
                ELSE SetupFails(Err("mkdir"), "mkdir")
    /\ UNCHANGED <<ncalls, clock, goroutine>>

\* Lines 132-144: the directories among spec.Files.
SetupDirs ==
    /\ call = "Setup" /\ pc = "dirs"
    /\ IF idx > Len(files)
       THEN /\ pc' = "files"
            /\ idx' = 1
            /\ UNCHANGED <<call, open, defers, ret, ctx, files, stepFiles, attempts,
                           backoff, ops, machine, platform>>
       ELSE IF ~files[idx]
       THEN /\ idx' = idx + 1
            /\ UNCHANGED <<call, pc, open, defers, ret, ctx, files, stepFiles,
                           attempts, backoff, ops, machine, platform>>
       ELSE \E ok \in BOOLEAN :
                IF ok
                THEN /\ idx' = idx + 1
                     /\ ops' = Append(ops, [op |-> "mkdir", file |-> idx])
                     /\ UNCHANGED <<call, pc, open, defers, ret, ctx, files, stepFiles,
                                    attempts, backoff, machine, platform>>
                ELSE SetupFails(Err("mkdir"), "mkdir")
    /\ UNCHANGED <<ncalls, clock, goroutine>>

\* Lines 149-168: the regular files among spec.Files, then success.
SetupFiles ==
    /\ call = "Setup" /\ pc = "files"
    /\ IF idx > Len(files)
       THEN Return("Setup", open, NoErr, NoState, "done")
       ELSE IF files[idx]
       THEN /\ idx' = idx + 1
            /\ UNCHANGED <<call, pc, open, defers, ret, ctx, files, stepFiles,
                           attempts, backoff, ops>>
       ELSE /\ pc' = "up_create"
            /\ UNCHANGED <<call, idx, open, defers, ret, ctx, files, stepFiles,
                           attempts, backoff, ops>>
    /\ UNCHANGED <<machine, ncalls, clock, goroutine, platform>>

\* -------------------------------------------------------------------- Run
\* The two tests of lines 267-272 in the other order: 255 overrides the status.
ExitState_Swapped(err) ==
    LET s0 == [set |-> TRUE, ExitCode |-> 0, Exited |-> TRUE, OOMKilled |-> FALSE]
        s1 == IF err.kind = "ExitError" THEN [s0 EXCEPT !.ExitCode = err.status] ELSE s0
    IN  IF err # NoErr THEN [s1 EXCEPT !.ExitCode = sessionFailure] ELSE s1

\* Lines 262-272: the State built once the command's completion was received.
ExitState(err) ==
    LET s0 == [set |-> TRUE, ExitCode |-> 0, Exited |-> TRUE, OOMKilled |-> FALSE]
        s1 == IF err # NoErr THEN [s0 EXCEPT !.ExitCode = sessionFailure] ELSE s0
    IN  IF err.kind = "ExitError" THEN [s1 EXCEPT !.ExitCode = err.status] ELSE s1

\* What session.Run hands back: nil, an *ssh.ExitError with the reported status,
\* or any other error.
RunResults ==
    {NoErr, Err("session")} \cup {ExitError(n) : n \in 1..MaxExitStatus}

\* Run dialling a second time when the first dial fails.
RunDial_Retry ==
    /\ Enter
    /\ \E ok \in BOOLEAN :
        /\ open' = Acquire(open, "conn")
        /\ defers' = Append(defers, "conn")
        /\ Begin("Run", "r_sftp")
        /\ attempts' = IF ok THEN 1 ELSE 2
        /\ \E n \in 0..MaxFiles : stepFiles' = n
        /\ UNCHANGED <<files, idx, backoff, ops>>
    /\ UNCHANGED <<machine, clock, goroutine, platform>>

\* Lines 193-201: one dial, no retry.
RunDial ==
    /\ Enter
    /\ \E ok \in BOOLEAN :
        IF ok
        THEN /\ open' = Acquire(open, "conn")
             /\ defers' = Append(defers, "conn")
             /\ Begin("Run", "r_sftp")
             /\ attempts' = 1
             /\ \E n \in 0..MaxFiles : stepFiles' = n
             /\ UNCHANGED <<files, idx, backoff, ops>>
        ELSE Return("Run", open, Err("dial"), NoState, "dial")
    /\ UNCHANGED <<machine, clock, goroutine, platform>>

\* Lines 203-207.
RunSftp ==
    /\ call = "Run" /\ pc = "r_sftp"
    /\ \E ok \in BOOLEAN :
        IF ok
        THEN /\ open' = Acquire(open, "sftp")
             /\ defers' = Append(defers, "sftp")
             /\ pc' = "r_files"
             /\ UNCHANGED <<call, ret, ctx, files, stepFiles, idx, attempts, backoff, ops>>
        ELSE Return("Run", open, Err("sftp"), NoState, "sftp")
    /\ UNCHANGED <<machine, ncalls, clock, goroutine, platform>>

\* The loop of line 213 left after its first file.
RunFiles_FirstOnly ==
    /\ call = "Run" /\ pc = "r_files"
    /\ pc' = IF idx > stepFiles \/ idx > 1 THEN "r_session" ELSE "up_create"
    /\ UNCHANGED <<machine, files, call, ncalls, ctx, clock, attempts, backoff, idx,
                   stepFiles, goroutine, open, defers, platform, ops, ret>>

\* Lines 213-227: every file of the step is uploaded.
RunFiles ==
    /\ call = "Run" /\ pc = "r_files"
    /\ pc' = IF idx > stepFiles THEN "r_session" ELSE "up_create"
    /\ UNCHANGED <<machine, files, call, ncalls, ctx, clock, attempts, backoff, idx,
                   stepFiles, goroutine, open, defers, platform, ops, ret>>

\* Lines 229-245: the session is opened and the goroutine that runs the command
\* is spawned; a goroutine an earlier Run left behind stays where it is.
RunSession ==
    /\ call = "Run" /\ pc = "r_session"
    /\ \E ok \in BOOLEAN :
        IF ok
        THEN /\ open' = Acquire(open, "session")
             /\ defers' = Append(defers, "session")
             /\ ops' = Append(ops, [op |-> "start", file |-> 0])
             /\ task' = "running"
             /\ stuck' = IF task \in {"running", "sending"} THEN stuck + 1 ELSE stuck
             /\ pc' = "r_select"
             /\ UNCHANGED <<call, ret, ctx, files, stepFiles, idx, attempts, backoff>>
        ELSE /\ Return("Run", open, Err("session"), NoState, "session")
             /\ UNCHANGED <<task, stuck>>
    /\ UNCHANGED <<machine, ncalls, clock, taskErr, platform>>

\* Line 244, in the goroutine: session.Run returns and the send on the
\* unbuffered channel done begins. A Run blocked in the select of line 247 is
\* handed the value at once; otherwise the send waits for a receiver. The
\* value of a send that no select will ever receive is not kept.
TaskFinish ==
    /\ task = "running"
    /\ \E e \in RunResults :
        taskErr' = IF call = "Run" /\ pc \in {"r_select", "r_parked"} THEN e ELSE NoErr
    /\ task' = "sending"
    /\ pc' = IF call = "Run" /\ pc = "r_parked" THEN "r_recv" ELSE pc
    /\ UNCHANGED <<machine, files, call, ncalls, ctx, clock, attempts, backoff,
                   idx, stepFiles, stuck, open, defers, platform, ops, ret>>

\* Lines 247-249: the select is evaluated. A case that is ready is taken, either
\* one when both are; with none ready Run blocks until the first of them.
RunSelect ==
    /\ call = "Run" /\ pc = "r_select"
    /\ \/ /\ task = "sending"
          /\ pc' = "r_recv"
       \/ /\ ctx # "none"
          /\ pc' = "r_signal"
       \/ /\ task = "running" /\ ctx = "none"
          /\ pc' = "r_parked"
    /\ UNCHANGED <<machine, files, call, ncalls, ctx, clock, attempts, backoff, idx,
                   stepFiles, goroutine, open, defers, platform, ops, ret>>

\* Lines 248 and 262-276: the command's error was received; the State is built
\* and returned with it.
RunReceived ==
    /\ call = "Run" /\ pc = "r_recv"
    /\ task' = "done"
    /\ taskErr' = NoErr
    /\ Return("Run", open, taskErr, ExitState(taskErr), "done")
    /\ UNCHANGED <<machine, ncalls, clock, stuck, platform>>

\* Lines 254-256: session.Signal(ssh.SIGKILL); its failure is only logged.
RunSignal ==
    /\ call = "Run" /\ pc = "r_signal"
    /\ \E sent \in BOOLEAN :
        ops' = Append(ops, [op |-> IF sent THEN "signal" ELSE "signal failed", file |-> 0])
    /\ pc' = "r_killed"
    /\ UNCHANGED <<machine, files, call, ncalls, ctx, clock, attempts, backoff, idx,
                   stepFiles, goroutine, open, defers, platform, ret>>

\* The return of line 259 missing: Run falls through to lines 262-276 with the
\* nil error it started with.
RunCancelled_FallsThrough ==
    /\ call = "Run" /\ pc = "r_killed"
    /\ Return("Run", open, NoErr, ExitState(NoErr), "done")
    /\ taskErr' = NoErr
    /\ UNCHANGED <<machine, ncalls, clock, task, stuck, platform>>

\* Line 259: return nil, ctx.Err().
RunCancelled ==
    /\ call = "Run" /\ pc = "r_killed"
    /\ Return("Run", open, Err(ctx), NoState, "cancel")
    /\ taskErr' = NoErr
    /\ UNCHANGED <<machine, ncalls, clock, task, stuck, platform>>

Next ==
    \/ Destroy
    \/ CtxDone
    \/ SetupRegisterKey
    \/ SetupProvision
    \/ DialRetryFirst
    \/ DialRetryCheck
    \/ DialRetryDial
    \/ DialRetryDialed
    \/ DialRetryWait
    \/ Tick
    \/ SetupSftp
    \/ SetupMkdirRoot
    \/ SetupDirs
    \/ SetupFiles
    \/ UploadCreate
    \/ UploadWrite
    \/ UploadChmod
    \/ RunDial
    \/ RunSftp
    \/ RunFiles
    \/ RunSession
    \/ TaskFinish
    \/ RunSelect
    \/ RunReceived
    \/ RunSignal
    \/ RunCancelled

Spec == Init /\ [][Next]_vars

\* One pipeline execution as the runner's scheduler drives it: Setup first, then
\* steps, and Destroy as the last call whatever the outcome of the others.
PipeSetup == ncalls = 0 /\ SetupRegisterKey
PipeRun == ncalls >= 1 /\ ret.op # "Destroy" /\ RunDial
PipeDestroy ==
    /\ call = "idle"
    /\ ncalls >= 1
    /\ ret.op # "Destroy"
    /\ ncalls' = ncalls + 1
    /\ DestroyCall

PipeNext ==
    \/ PipeSetup
    \/ PipeRun
    \/ PipeDestroy
    \/ CtxDone
    \/ SetupProvision
    \/ DialRetryFirst
    \/ DialRetryCheck
    \/ DialRetryDial
    \/ DialRetryDialed
    \/ DialRetryWait
    \/ Tick
    \/ SetupSftp
    \/ SetupMkdirRoot
    \/ SetupDirs
    \/ SetupFiles
    \/ UploadCreate
    \/ UploadWrite
    \/ UploadChmod
    \/ RunSftp
    \/ RunFiles
    \/ RunSession
    \/ TaskFinish
    \/ RunSelect
    \/ RunReceived
    \/ RunSignal
    \/ RunCancelled

\* The pipeline does not stop while a step of it can be taken: the clock runs,
\* a remote operation returns, a command that is waited for ends or its context
\* is cancelled, and the scheduler issues its next call.
PipeSpec == Init /\ [][PipeNext]_vars /\ WF_vars(PipeNext)

\* A caller that, after the pipeline's Destroy returned, calls Destroy on the
\* same Spec once more.
DestroyAgain ==
    /\ call = "idle"
    /\ ret.op = "Destroy"
    /\ ncalls <= MaxCalls + 1
    /\ ncalls' = ncalls + 1
    /\ DestroyCall

RepeatNext ==
    \/ PipeNext
    \/ DestroyAgain

RepeatSpec == Init /\ [][RepeatNext]_vars

\* dialRetry on its own: entered by a first Setup whose provisioning succeeded,
\* with any context, against any host: one that accepts at once, one that
\* accepts only after the timeout could have run out, one that never accepts.
MaxRefusals == (networkTimeout \div retryWait) + MaxFails
DialInit ==
    /\ id \in 1..MaxId
    /\ ip \in IPs \ {""}
    /\ files = <<>>
    /\ call = "Setup"
    /\ pc = "dr_first"
    /\ ncalls = 1
    /\ ctx \in {"none"} \cup CtxErrs
    /\ cctx = "off"
    /\ elapsed = 0
    /\ timer = 0
    /\ dialTicks = 0
    /\ failsLeft \in (0..MaxRefusals) \cup {NeverUp}
    /\ attempts = 0
    /\ backoff = 0
    /\ idx = 1
    /\ stepFiles = 0
    /\ task = "none"
    /\ taskErr = NoErr
    /\ stuck = 0
    /\ open = NoOpen
    /\ defers = <<>>
    /\ platform = <<[op |-> "RegisterKey", id |-> 0, ip |-> "", err |-> NoErr],
                    [op |-> "Provision", id |-> id, ip |-> ip, err |-> NoErr]>>
    /\ ops = <<>>
    /\ ret = NoRet

DialNext ==
    \/ CtxDone
    \/ DialRetryFirst
    \/ DialRetryCheck
    \/ DialRetryDial
    \/ DialRetryDialed
    \/ DialRetryWait
    \/ Tick

DialSpec == DialInit /\ [][DialNext]_vars

\* ================================================================ claims
Last(q) == q[Len(q)]
DestroyStep == call = "idle" /\ call' = "idle" /\ ncalls' = ncalls + 1 /\ ret'.op = "Destroy"
Provisioned == {i \in DOMAIN platform : platform[i].op = "Provision" /\ platform[i].id > 0}
LatestProvisioned == CHOOSE i \in Provisioned : \A j \in Provisioned : j <= i

\* C1: Destroy on a spec whose identifier is zero returns nil and makes no call
\* to the collaborator; otherwise it makes exactly one Destroy call, with the
\* recorded identifier and address, and returns that call's error as it is.
C1_DestroyContract ==
    [][DestroyStep =>
        IF id = 0
        THEN ret'.err = NoErr /\ platform' = platform
        ELSE platform' = Append(platform, [op |-> "Destroy", id |-> id, ip |-> ip,
                                           err |-> ret'.err])]_vars

C1_Witness ==
    /\ ret.op = "Destroy"
    /\ id # 0
    /\ ret.err = Err("destroy")
    /\ Last(platform) = [op |-> "Destroy", id |-> id, ip |-> ip, err |-> Err("destroy")]

\* C2: when Run received the command's completion it returns a State with
\* Exited, not OOMKilled, and ExitCode 0 for a nil error, the reported status
\* for an exit error and 255 for any other error, together with that error.
C2_ExitState ==
    (ret.op = "Run" /\ ret.at = "done") =>
        /\ ret.state.set
        /\ ret.state.Exited
        /\ ~ret.state.OOMKilled
        /\ ret.state.ExitCode = CASE ret.err = NoErr -> 0
                                  [] ret.err.kind = "ExitError" -> ret.err.status
                                  [] OTHER -> sessionFailure

C2_Witness ==
    /\ ret.op = "Run"
    /\ ret.at = "done"
    /\ ret.err = ExitError(3)
    /\ ret.state.ExitCode = 3
    /\ ret.state.Exited

\* C3 as claimed: a Run whose context became done while its command was
\* executing sends the kill signal and returns the context's error and no State.
C3_Original ==
    [][(call = "Run" /\ call' = "idle"
            /\ \E i \in DOMAIN ops : ops[i].op = "ctx done")
       => /\ ret' = [op |-> "Run", err |-> Err(ctx), state |-> NoState, at |-> "cancel"]
          /\ \E i \in DOMAIN ops : ops[i].op \in {"signal", "signal failed"}]_vars

\* C3 amended: when the select is evaluated with the context done and no
\* completion offered, or the context becomes done while Run is blocked in the
\* select, Run sends the kill signal and then returns the context's error and no
\* State, whether or not the signal could be sent; a State is returned only for
\* a command whose completion was received, and it is that command's result.
C3_CancelWins ==
    [][/\ (call = "Run" /\ pc = "r_select" /\ ctx # "none" /\ task = "running"
              /\ pc' # "r_select")
          => (pc' = "r_signal" /\ ret' = ret)
       /\ (call = "Run" /\ pc = "r_parked" /\ ctx' # "none")
          => (pc' = "r_signal" /\ ret' = ret)
       /\ (pc = "r_signal" /\ pc' # "r_signal")
          => /\ pc' = "r_killed"
             /\ Len(ops') = Len(ops) + 1
             /\ Last(ops').op \in {"signal", "signal failed"}
             /\ ret' = ret
       /\ (pc = "r_killed" /\ pc' # "r_killed")
          => /\ ctx \in CtxErrs
             /\ ret' = [op |-> "Run", err |-> Err(ctx), state |-> NoState, at |-> "cancel"]
       /\ (call = "Run" /\ call' = "idle" /\ ret'.state.set)
          => /\ pc = "r_recv"
             /\ task = "sending"
             /\ ret' = [op |-> "Run", err |-> taskErr, state |-> ExitState(taskErr),
                        at |-> "done"]
      ]_vars

C3_Witness ==
    /\ call = "Run"
    /\ pc = "r_killed"
    /\ task = "running"
    /\ ctx = "Canceled"
    /\ Last(ops).op = "signal failed"
    /\ ops[Len(ops) - 1].op = "ctx done"

\* C4: a Setup whose provisioning call returned an identifier together with an
\* error leaves that identifier and address on the spec, and a Destroy that
\* follows it asks the collaborator to delete exactly that machine.
C4_RecordedOnError ==
    /\ (call = "idle" /\ ret.op = "Setup" /\ ret.at = "provision"
            /\ Last(platform).id > 0)
       => (id = Last(platform).id /\ ip = Last(platform).ip)
    /\ (call = "idle" /\ ret.op = "Destroy" /\ platform # <<>>
            /\ Last(platform).op = "Provision")
       => Last(platform).id = 0
    /\ (Len(platform) >= 2 /\ Last(platform).op = "Destroy"
            /\ platform[Len(platform) - 1].op = "Provision"
            /\ platform[Len(platform) - 1].id > 0)
       => /\ Last(platform).id = platform[Len(platform) - 1].id
          /\ Last(platform).ip = platform[Len(platform) - 1].ip

C4_Witness ==
    /\ ret.op = "Destroy"
    /\ Len(platform) = 3
    /\ platform[2].op = "Provision"
    /\ platform[2].err # NoErr
    /\ platform[3] = [op |-> "Destroy", id |-> platform[2].id, ip |-> platform[2].ip,
                      err |-> NoErr]

\* C5 as claimed: the identifier is non-zero only once some provisioning call
\* has succeeded.
C5_Original ==
    id # 0 => \E i \in DOMAIN platform :
                  platform[i].op = "Provision" /\ platform[i].err = NoErr

\* C5 amended: the identifier is zero until a provisioning call returns a
\* non-zero identifier, with or without an error; from then on the spec holds
\* the identifier and address of the latest such call.
C5_ZeroUntilProvisioned ==
    IF Provisioned = {}
    THEN id = 0 /\ ip = ""
    ELSE id = platform[LatestProvisioned].id /\ ip = platform[LatestProvisioned].ip

C5_Witness ==
    /\ call = "idle"
    /\ ret.op = "Setup"
    /\ ret.at = "provision"
    /\ id # 0
    /\ \A i \in DOMAIN platform : platform[i].op = "Provision" => platform[i].err # NoErr

\* C6: a Setup that fails at the connection, at the workspace directory, at a
\* global directory or at a global file returns the error of that step, has
\* made no call to the collaborator since provisioning, and leaves on the spec
\* the identifier and address that provisioning recorded.
C6_FailedSetupLeavesMachine ==
    (call = "idle" /\ ret.op = "Setup" /\ ret.at \in {"dial", "mkroot", "mkdir", "upload"})
    => /\ ret.err.kind \in (CASE ret.at = "dial" -> CtxErrs
                              [] ret.at = "upload" -> {"create", "write", "chmod"}
                              [] OTHER -> {"mkdir"})
       /\ Last(platform).op = "Provision"
       /\ Last(platform).err = NoErr
       /\ id = Last(platform).id
       /\ ip = Last(platform).ip
       /\ id # 0

C6_Witness ==
    /\ call = "idle"
    /\ ret.op = "Setup"
    /\ ret.at = "mkdir"
    /\ ret.err = Err("mkdir")
    /\ id # 0
    /\ Last(platform).op = "Provision"

\* dialRetry under the assumption that neither the program nor the clock stops:
\* a dial returns (the transport has its own timeout) and a sleep ends.
DialFairSpec == DialInit /\ [][DialNext]_vars /\ WF_vars(DialNext)

InDialRetry == call = "Setup" /\ pc \in {"dr_first", "dr_check", "dr_dial", "dr_dialing", "dr_wait"}
InRetryLoop == call = "Setup" /\ pc \in {"dr_check", "dr_dial", "dr_dialing", "dr_wait"}
DialStarts == (pc = "dr_first" /\ pc' # "dr_first") \/ (pc = "dr_dial" /\ pc' = "dr_dialing")
DialRetryFails == InDialRetry /\ call' = "idle"

\* C7: dialRetry entered with a context that is already done returns no
\* connection, dialRetry never returns an error other than its context's, and
\* no dial attempt starts once the context is done.
C7_Original ==
    [][/\ (pc = "dr_first" /\ ctx # "none") => pc' # "sftp"
       /\ DialRetryFails => ret'.err.kind \in CtxErrs
       /\ DialStarts => (ctx = "none" /\ cctx \in {"off", "none"})]_vars

\* C8 as claimed, its second half: once networkTimeout has run out on a caller
\* whose own context is not done, no dial attempt starts and dialRetry ends
\* with the deadline error.
C8_Original ==
    [][(InRetryLoop /\ ctx = "none" /\ elapsed >= networkTimeout)
       => /\ ~DialStarts
          /\ pc' \notin {"dr_check", "dr_dial", "dr_dialing", "dr_wait"}
             => (DialRetryFails /\ ret'.err = Err("DeadlineExceeded"))]_vars

\* C8 amended: dialRetry ends; against a host that refuses at most MaxFails
\* dials it ends with the connection unless the caller's context is done. The
\* timeout runs from the first failure and the derived context is done once
\* networkTimeout has run out; a check that finds it done returns its error, a
\* wait that finds it done returns its error or, its 10 seconds being over as
\* well, falls into that check, and a retry starts only after a check that
\* found it not done. A dial that was let through before the deadline still
\* returns its connection.
C8_BoundedRetry ==
    /\ [](InRetryLoop /\ cctx = "none" => elapsed < networkTimeout)
    /\ [][/\ (pc = "dr_first" /\ pc' = "dr_check") => (elapsed' = 0 /\ cctx' = ctx)
          /\ (InRetryLoop /\ pc = "dr_check" /\ cctx # "none" /\ pc' # pc)
             => (DialRetryFails /\ ret'.err = Err(cctx))
          /\ (InRetryLoop /\ pc = "dr_wait" /\ cctx # "none" /\ pc' # pc)
             => \/ DialRetryFails /\ ret'.err = Err(cctx)
                \/ TimerFired /\ pc' = "dr_check"
          /\ (pc' = "dr_dial" /\ pc # "dr_dial") => (pc = "dr_check" /\ cctx = "none")
          /\ DialRetryFails
             => /\ ret'.err = Err(cctx)
                /\ ret'.at = "dial"
                /\ ctx = "none" => (cctx = "DeadlineExceeded" /\ elapsed >= networkTimeout)
          /\ (pc = "dr_dialing" /\ DialOk /\ pc' # pc) => pc' = "sftp"]_vars
    /\ InDialRetry ~> ~InDialRetry
    /\ (pc = "dr_first" /\ failsLeft \in 0..MaxFails) ~> (pc = "sftp" \/ ctx # "none")

C8_Witness ==
    /\ call = "Setup"
    /\ pc = "dr_check"
    /\ ctx = "none"
    /\ cctx = "DeadlineExceeded"
    /\ elapsed >= networkTimeout
    /\ failsLeft = NeverUp

\* C9: every retry of dialRetry starts after a wait of retryWait seconds since
\* the attempt before it.
C9_Original ==
    [][(pc = "dr_dial" /\ pc' = "dr_dialing") => backoff = retryWait]_vars

\* C10: whatever Setup, Run and upload opened is closed when the call has
\* returned, on every path; a file handle is held only inside upload, dialRetry
\* holds no connection between its attempts, and what a running call holds is
\* what its deferred closes will release.
C10_Released ==
    /\ call = "idle" => open = NoOpen
    /\ (InDialRetry \/ pc = "provision") => open = NoOpen
    /\ open.file = IF pc \in {"up_write", "up_chmod"} THEN 1 ELSE 0
    /\ \A r \in {"conn", "sftp", "session"} :
          open[r] = IF \E i \in DOMAIN defers : defers[i] = r THEN 1 ELSE 0

C10_Witness ==
    /\ call = "idle"
    /\ ret.op = "Run"
    /\ ret.at = "cancel"
    /\ ret.err = Err("Canceled")
    /\ open = NoOpen
    /\ task = "running"

\* The remote operations a Setup with the global Files fs makes when none of
\* them fails: the workspace root, the directories in list order, then create,
\* write and chmod for each regular file in list order.
Positions(fs, dir) == SelectSeq([i \in 1..Len(fs) |-> i], LAMBDA i : fs[i] = dir)
Staging(fs) ==
    LET ds == Positions(fs, TRUE)
        rs == Positions(fs, FALSE)
        step == <<"create", "write", "chmod">>
    IN  <<[op |-> "mkdir", file |-> 0]>>
        \o [k \in 1..Len(ds) |-> [op |-> "mkdir", file |-> ds[k]]]
        \o [k \in 1..(3 * Len(rs)) |->
               [op |-> step[((k - 1) % 3) + 1], file |-> rs[((k - 1) \div 3) + 1]]]
IsPrefix(a, b) == Len(a) <= Len(b) /\ a = SubSeq(b, 1, Len(a))
Kinds(q) == [k \in DOMAIN q |-> [op |-> q[k].op, file |-> q[k].file]]

\* C11: at every moment of a Setup the staging operations done so far are the
\* beginning of: workspace root, every directory-type File in list order, every
\* regular File in list order; a Setup that succeeds has done all of them, and
\* one that fails while staging returns the error of the first operation not
\* done and does nothing after it.
C11_StagingOrder ==
    /\ [](call = "Setup" => IsPrefix(Kinds(ops), Staging(files)))
    /\ []((call = "Setup" /\ pc = "files" /\ idx > Len(files)) => Kinds(ops) = Staging(files))
    /\ [][(call = "Setup" /\ call' = "idle" /\ ret'.at \in {"mkroot", "mkdir", "upload"})
          => /\ Len(ops) < Len(Staging(files))
             /\ ret'.err = Err(Staging(files)[Len(ops) + 1].op)]_vars

C11_Witness ==
    /\ call = "Setup"
    /\ pc = "files"
    /\ idx > Len(files)
    /\ files = <<FALSE, TRUE>>
    /\ Kinds(ops) = <<[op |-> "mkdir", file |-> 0], [op |-> "mkdir", file |-> 2],
               [op |-> "create", file |-> 1], [op |-> "write", file |-> 1],
               [op |-> "chmod", file |-> 1]>>

Calls(o) == Cardinality({i \in DOMAIN platform : platform[i].op = o})
Registered == Cardinality({i \in DOMAIN platform :
                  platform[i].op = "RegisterKey" /\ platform[i].err = NoErr})

\* C12: a Run has made exactly one dial attempt; when that attempt fails Run
\* returns the dial error and no State, having uploaded nothing and started no
\* command. No remote operation is made twice within a call, and the
\* collaborator is asked at most once per call for each of its operations.
C12_RunDialsOnce ==
    /\ [](call = "Run" => attempts = 1)
    /\ [](\A i, j \in DOMAIN ops : ops[i] = ops[j] => i = j)
    /\ [](Calls("RegisterKey") + Calls("Destroy") <= ncalls /\ Calls("Provision") <= Registered)
    /\ [][(call = "idle" /\ call' = "idle" /\ ncalls' = ncalls + 1 /\ ret'.op = "Run")
          => /\ ret' = [op |-> "Run", err |-> Err("dial"), state |-> NoState, at |-> "dial"]
             /\ ops = <<>>
             /\ open' = NoOpen
             /\ task' = task]_vars

C12_Witness ==
    /\ call = "idle"
    /\ ret = [op |-> "Run", err |-> Err("dial"), state |-> NoState, at |-> "dial"]
    /\ id # 0
    /\ task = "none"

Asked(o, i) == \E k \in DOMAIN platform : platform[k].op = o /\ platform[k].id = i

\* C13: in a pipeline execution whose scheduler ends with Destroy, every machine
\* identifier that Provision handed to Setup is eventually the identifier of a
\* delete request to the collaborator, and that request carries the machine's
\* address.
C13_MachineDeleted ==
    /\ \A i \in 1..MaxId : Asked("Provision", i) ~> Asked("Destroy", i)
    /\ [](\A k \in DOMAIN platform :
            platform[k].op = "Destroy"
            => /\ k > 1
               /\ \E j \in 1..(k - 1) :
                     /\ platform[j].op = "Provision"
                     /\ platform[j].id = platform[k].id
                     /\ platform[j].ip = platform[k].ip)

C13_Witness ==
    /\ ncalls = 3
    /\ ret.op = "Destroy"
    /\ task \in {"running", "sending"}
    /\ Len(platform) = 3
    /\ platform[2].op = "Provision"
    /\ platform[2].err = NoErr
    /\ platform[3].op = "Destroy"
    /\ platform[3].id = platform[2].id

\* The remote operations of a Run with n Files up to the start of its command.
StepStaging(n) ==
    LET step == <<"create", "write", "chmod">>
    IN  [k \in 1..(3 * n) |-> [op |-> step[((k - 1) % 3) + 1], file |-> ((k - 1) \div 3) + 1]]
        \o <<[op |-> "start", file |-> 0]>>

\* C14: in a Run the command is started only after create, write and chmod of
\* every File of the step, in list order; a Run that fails at the sftp client,
\* at an upload or at the session returns the error of the first operation not
\* done and no State, and has started no command.
C14_UploadsBeforeCommand ==
    /\ [](call = "Run" => \/ IsPrefix(Kinds(ops), StepStaging(stepFiles))
                          \/ IsPrefix(StepStaging(stepFiles), Kinds(ops)))
    /\ [][(call = "Run" /\ call' = "idle" /\ ret'.at \in {"sftp", "upload", "session"})
          => /\ Len(ops) < Len(StepStaging(stepFiles))
             /\ ret'.state = NoState
             /\ task' = task
             /\ ret'.err.kind =
                  IF ret'.at = "sftp" THEN "sftp"
                  ELSE IF StepStaging(stepFiles)[Len(ops) + 1].op = "start" THEN "session"
                  ELSE StepStaging(stepFiles)[Len(ops) + 1].op]_vars

C14_Witness ==
    /\ call = "Run"
    /\ pc = "r_select"
    /\ stepFiles = 2
    /\ Kinds(ops) = StepStaging(2)
    /\ task = "running"

\* C15: what a Run writes into the remote file of a File of its step is the
\* working-directory statement, the secret exports, the environment exports and
\* the File's content, in this order and nothing else; the statements are the
\* same for every File of the step, and the write is the one between the create
\* and the chmod of that File.
C15_ScriptContent ==
    call = "Run" =>
        \A k \in DOMAIN ops :
            ops[k].op = "write"
            => /\ ops[k].data = <<Chunk("workdir", 0), Chunk("secrets", 0),
                                  Chunk("environ", 0), Chunk("data", ops[k].file)>>
               /\ k > 1
               /\ ops[k - 1] = [op |-> "create", file |-> ops[k].file]
               /\ k < Len(ops) => ops[k + 1] = [op |-> "chmod", file |-> ops[k].file]

C15_Witness ==
    /\ call = "Run"
    /\ stepFiles = 2
    /\ Len(ops) >= 6
    /\ ops[2].op = "write" /\ ops[2].file = 1
    /\ ops[5].op = "write" /\ ops[5].file = 2
    /\ SubSeq(ops[2].data, 1, 3) = SubSeq(ops[5].data, 1, 3)
    /\ ops[5].data[4] = Chunk("data", 2)

\* C16: a Setup whose RegisterKey fails returns that error at once, with the
\* identifier and address of the Spec as they were and nothing opened; the
\* collaborator is asked to provision only right after a RegisterKey that
\* succeeded, and a Setup is past provisioning only once Provision succeeded.
C16_RegisterKeyFailure ==
    /\ [][(call = "idle" /\ call' = "idle" /\ ncalls' = ncalls + 1 /\ ret'.op = "Setup")
          => /\ ret' = [op |-> "Setup", err |-> Err("register"), state |-> NoState,
                        at |-> "register"]
             /\ platform' = Append(platform, [op |-> "RegisterKey", id |-> 0, ip |-> "",
                                              err |-> Err("register")])
             /\ id' = id /\ ip' = ip
             /\ open' = NoOpen
             /\ attempts' = 0]_vars
    /\ [](\A k \in DOMAIN platform :
            platform[k].op = "Provision"
            => (k > 1 /\ platform[k - 1].op = "RegisterKey" /\ platform[k - 1].err = NoErr))
    /\ []((call = "Setup" /\ pc # "provision")
            => (Last(platform).op = "Provision" /\ Last(platform).err = NoErr))

C16_Witness ==
    /\ call = "idle"
    /\ ret = [op |-> "Setup", err |-> Err("register"), state |-> NoState, at |-> "register"]
    /\ id # 0
    /\ Last(platform) = [op |-> "RegisterKey", id |-> 0, ip |-> "", err |-> Err("register")]

InUpload == pc \in {"up_create", "up_write", "up_chmod"}
UploadFails(k) == call' = "idle" /\ ret'.at = "upload" /\ ret'.err = Err(k) /\ ret'.state = NoState

\* C17: upload goes from create to write to chmod and to nothing else; a step
\* that fails makes upload return that step's error with the later steps not
\* made; the file is open exactly from the successful create on, and it is
\* closed when upload is left, by success or by a failed write or chmod.
C17_UploadSteps ==
    /\ [][/\ (pc = "up_create" /\ pc' # pc)
             => \/ pc' = "up_write" /\ open'.file = 1 /\ Last(ops').op = "create"
                \/ UploadFails("create") /\ open.file = 0
          /\ (pc = "up_write" /\ pc' # pc)
             => \/ pc' = "up_chmod" /\ open'.file = 1 /\ Last(ops').op = "write"
                \/ UploadFails("write")
          /\ (pc = "up_chmod" /\ pc' # pc)
             => \/ /\ pc' \in {"files", "r_files"}
                   /\ Len(ops') >= 3
                   /\ Kinds(SubSeq(ops', Len(ops') - 2, Len(ops'))) =
                        <<[op |-> "create", file |-> idx], [op |-> "write", file |-> idx],
                          [op |-> "chmod", file |-> idx]>>
                \/ UploadFails("chmod")
          /\ (InUpload /\ pc' # pc /\ pc' \notin {"up_write", "up_chmod"}) => open'.file = 0
          /\ (pc' = "up_create" /\ pc # pc') => open.file = 0]_vars
    /\ [](open.file = 1 <=> pc \in {"up_write", "up_chmod"})

C17_Witness ==
    /\ call = "idle"
    /\ ret.op = "Setup"
    /\ ret.at = "upload"
    /\ ret.err = Err("chmod")
    /\ open.file = 0

\* C18: the goroutine that Run spawns always terminates: whenever it is running
\* the command or sending its result, the result is eventually delivered, also
\* when Run returned because the context was done.
C18_Original == (task \in {"running", "sending"}) ~> (task = "done")

\* C19: only Setup, where it records what Provision returned, changes the
\* identifier or the address of the Spec: no step of Run and no Destroy does.
\* So a Destroy that follows a Destroy on a Spec with a non-zero identifier
\* finds the identifier and address the first one used, and asks the
\* collaborator to delete that machine again.
C19_IdentityKept ==
    /\ [][(id' # id \/ ip' # ip) => (call = "Setup" /\ pc = "provision")]_vars
    /\ [][(call = "Run" \/ call' = "Run" \/ DestroyStep) => (id' = id /\ ip' = ip)]_vars
    /\ [][(DestroyStep /\ ret.op = "Destroy" /\ id # 0)
          => /\ Last(platform).op = "Destroy"
             /\ Last(platform).id = id
             /\ Last(platform).ip = ip
             /\ Len(platform') = Len(platform) + 1
             /\ Last(platform').op = "Destroy"
             /\ Last(platform').id = Last(platform).id
             /\ Last(platform').ip = Last(platform).ip
             /\ ret'.at = "platform"]_vars

C19_Witness ==
    /\ call = "idle"
    /\ ret.op = "Destroy"
    /\ id # 0
    /\ Len(platform) >= 3
    /\ platform[Len(platform) - 1].op = "Destroy"
    /\ Last(platform).op = "Destroy"
    /\ Last(platform).id = id
    /\ Last(platform).ip = ip
    /\ platform[Len(platform) - 1].id = id
    /\ \E k \in DOMAIN platform : platform[k].op = "Provision" /\ platform[k].id = id
====
